---- MODULE Spec2Model ----
(***************************************************************************)
(* Model of src/main.rs: read_csv, perform_pca, plot_pca_results and main. *)
(*                                                                         *)
(* Numbers.  Feature values are small integers.  A projected coordinate    *)
(* is a real number whose denominator is n_samples (the column means are   *)
(* column sums divided by n_samples), so every projected coordinate is     *)
(* carried multiplied by n_samples; the renderer's margin of 1.0 is then   *)
(* n_samples units.                                                        *)
(*                                                                         *)
(* Indices are 0-based as in the source; sequences are 1-based, hence the  *)
(* "+ 1" where a sequence is indexed.                                      *)
(***************************************************************************)
EXTENDS Integers, Sequences, FiniteSets, TLC

\* ------------------------------------------------------------------ bounds
MaxRows == 3        \* rows of a matrix handed directly to perform_pca
MaxCols == 3        \* length of a row handed directly to perform_pca
MaxRecords == 2     \* data records the reader yields before end of file
MaxFields == 3      \* fields of a CSV record (features and the label)

\* ------------------------------------------------------ program constants
N_COMPONENTS == 2   \* with_n_components(2), and the literal 2 of the copy loop

VARIABLES
    pc,             \* position of the single thread of control
    header_len,     \* field count of the header record (0: not read yet)
    records,        \* the data records the reader has yielded so far
    data,           \* Vec<Vec<f64>>: read_csv's `data`, perform_pca's argument
    targets,        \* Vec<f64>: read_csv's `targets`
    x,              \* perform_pca: the DenseMatrix built from `data`
    pca,            \* perform_pca: the fitted PCA
    result,         \* perform_pca: the transformed DenseMatrix
    projected_data, \* perform_pca / main: Vec<Vec<f64>> of projected rows
    i,              \* loop index of the loop in progress
    ret_read,       \* value returned by read_csv
    ret_pca,        \* value returned by perform_pca
    ret_plot,       \* value returned by plot_pca_results
    ret_main,       \* value returned by main
    canvas,         \* pca_results.png: drawing state, axis ranges and circles
    console,        \* lines printed on standard output
    lib,            \* library calls made by perform_pca, in order, each with
                    \* the shape of its matrix (for get: the position read)
    log             \* calls and returns of the three stages and main, in order

vars == <<pc, header_len, records, data, targets, x, pca, result,
          projected_data, i, ret_read, ret_pca, ret_plot, ret_main,
          canvas, console, lib, log>>

\* ----------------------------------------------------------------- values
None == [tag |-> "None"]
Err(m) == [tag |-> "Err", msg |-> m]

IsOk(r) == r.tag = "Ok"
IsErr(r) == r.tag = "Err"

\* pca_results.png before the renderer has touched it
NoCanvas == [stage |-> "none", x_range |-> <<>>, y_range |-> <<>>,
             circles |-> <<>>]

RECURSIVE SumTo(_, _)
\* f(0) + ... + f(n - 1)
SumTo(f, n) == IF n = 0 THEN 0 ELSE SumTo(f, n - 1) + f[n - 1]

SetMin(S) == CHOOSE m \in S : \A e \in S : m <= e
SetMax(S) == CHOOSE m \in S : \A e \in S : m >= e

\* ------------------------------------------------------------ DenseMatrix
DenseMatrixNew(nrows, ncols, values, column_major) ==
    [nrows |-> nrows, ncols |-> ncols, values |-> values,
     column_major |-> column_major]

\* DenseMatrix::get panics on a position outside the shape
InShape(m, row, col) == row < m.nrows /\ col < m.ncols

Get(m, row, col) ==
    IF m.column_major THEN m.values[col * m.nrows + row + 1]
    ELSE m.values[col + m.ncols * row + 1]

\* a matrix the library allocates itself (zeros/fill) is column-major;
\* entry maps every position <<row, col>> to its value
MatrixOf(nrows, ncols, entry) ==
    DenseMatrixNew(nrows, ncols,
        [k \in 1..(nrows * ncols) |->
            entry[<<(k - 1) % nrows, (k - 1) \div nrows>>]],
        TRUE)

Positions(nrows, ncols) == (0..(nrows - 1)) \X (0..(ncols - 1))

RECURSIVE Flatten(_)
\* data.iter().flatten().cloned().collect()
Flatten(rows) ==
    IF rows = <<>> THEN <<>> ELSE Head(rows) \o Flatten(Tail(rows))

\* -------------------------------------------------------------------- PCA
\* The decomposition is a black box: the principal directions it returns are
\* one of a few integer bases (a direction's sign, and the order of directions
\* of equal variance, are the library's choice).
Bases(n) ==
    { MatrixOf(n, N_COMPONENTS,
               [at \in Positions(n, N_COMPONENTS) |->
                   IF at[1] = (at[2] + o) % n THEN s ELSE 0]) :
        s \in {1, -1}, o \in {0, 1} }

\* column sums: n_samples times the column means `mu`
ColSums(m) ==
    [c \in 1..m.ncols |->
        SumTo([r \in 0..(m.nrows - 1) |-> Get(m, r, c - 1)], m.nrows)]

\* PCA::fit: n_components > n is refused; otherwise the decomposition either
\* fails or yields the means and a projection of n x n_components
FitOutcomes(m, n_components) ==
    IF n_components > m.ncols
    THEN {Err("n_components should be <= number of attributes")}
    ELSE {Err("decomposition failed")} \cup
         { [tag |-> "Ok", n |-> m.nrows, mu |-> ColSums(m), projection |-> P] :
             P \in Bases(m.ncols) }

\* entry (r, c) of x * projection - mu * projection, times the n of the fit
Projected(p, m, r, c) ==
    SumTo([f \in 0..(m.ncols - 1) |->
              (p.n * Get(m, r, f) - p.mu[f + 1]) * Get(p.projection, f, c)],
          m.ncols)

\* PCA::transform
Transform(p, m) ==
    IF m.ncols # Len(p.mu)
    THEN Err("wrong number of columns")
    ELSE [tag |-> "Ok",
          value |-> MatrixOf(m.nrows, p.projection.ncols,
                       [at \in Positions(m.nrows, p.projection.ncols) |->
                           Projected(p, m, at[1], at[2])])]

\* ------------------------------------------------------------ perform_pca
Call(name, m) == [fn |-> name, nrows |-> m.nrows, ncols |-> m.ncols]

\* variant: perform_pca reports on standard output
PcaFrame_Prints ==
    /\ console' = Append(console, "perform_pca")
    /\ UNCHANGED <<header_len, records, data, targets, ret_read,
                   ret_plot, ret_main, canvas>>

\* perform_pca touches its locals and its return value only
PcaFrame == UNCHANGED <<header_len, records, data, targets, ret_read,
                        ret_plot, ret_main, canvas, console>>

PcaLog(r) == Append(log, "perform_pca:" \o r.tag)

\* variant: the emptiness check is missing
PcaCheckEmpty_Missing ==
    /\ pc = "pca_entry"
    /\ pc' = "pca_rows"
    /\ UNCHANGED <<x, pca, result, projected_data, i, lib, ret_pca, log>>
    /\ PcaFrame

\* if data.is_empty() { return Err(..) }
PcaCheckEmpty ==
    /\ pc = "pca_entry"
    /\ IF Len(data) = 0
       THEN /\ ret_pca' = Err("No data provided")
            /\ log' = PcaLog(ret_pca')
            /\ pc' = "pca_returned"
       ELSE /\ pc' = "pca_rows"
            /\ UNCHANGED <<ret_pca, log>>
    /\ UNCHANGED <<x, pca, result, projected_data, i, lib>>
    /\ PcaFrame

\* variant: only the second row is compared with the first
RowsAgree_FirstTwo(rows) ==
    \A r \in 1..Len(rows) : r <= 2 => Len(rows[r]) = Len(rows[1])

\* let n_features = data[0].len(); if !all(row.len() == n_features) {..}
RowsAgree(rows) == \A r \in 1..Len(rows) : Len(rows[r]) = Len(rows[1])

PcaCheckRows ==
    /\ pc = "pca_rows"
    /\ IF ~RowsAgree(data)
       THEN /\ ret_pca' = Err("Inconsistent number of features in data")
            /\ log' = PcaLog(ret_pca')
            /\ pc' = "pca_returned"
       ELSE /\ pc' = "pca_convert"
            /\ UNCHANGED <<ret_pca, log>>
    /\ UNCHANGED <<x, pca, result, projected_data, i, lib>>
    /\ PcaFrame

\* variant: the row-major flat_data is declared column-major
Convert_ColumnMajor(rows) ==
    DenseMatrixNew(Len(rows), Len(rows[1]), Flatten(rows), TRUE)

\* flat_data and DenseMatrix::new(n_samples, n_features, flat_data, false)
Convert(rows) ==
    DenseMatrixNew(Len(rows), Len(rows[1]), Flatten(rows), FALSE)

PcaConvert ==
    /\ pc = "pca_convert"
    /\ x' = Convert(data)
    /\ lib' = Append(lib, Call("DenseMatrix::new", x'))
    /\ pc' = "pca_fit"
    /\ UNCHANGED <<pca, result, projected_data, i, ret_pca, log>>
    /\ PcaFrame

\* let pca = PCA::fit(&x, PCAParameters::default().with_n_components(2))?;
PcaFit ==
    /\ pc = "pca_fit"
    /\ \E r \in FitOutcomes(x, N_COMPONENTS) :
         /\ lib' = Append(lib, Call("PCA::fit", x))
         /\ IF IsErr(r)
            THEN /\ ret_pca' = r
                 /\ log' = PcaLog(r)
                 /\ pc' = "pca_returned"
                 /\ UNCHANGED pca
            ELSE /\ pca' = r
                 /\ pc' = "pca_transform"
                 /\ UNCHANGED <<ret_pca, log>>
    /\ UNCHANGED <<x, result, projected_data, i>>
    /\ PcaFrame

\* let result = pca.transform(&x)?;
PcaTransform ==
    /\ pc = "pca_transform"
    /\ lib' = Append(lib, Call("PCA::transform", x))
    /\ LET r == Transform(pca, x) IN
         IF IsErr(r)
         THEN /\ ret_pca' = r
              /\ log' = PcaLog(r)
              /\ pc' = "pca_returned"
              /\ UNCHANGED <<result, projected_data, i>>
         ELSE /\ result' = r.value
              /\ projected_data' = <<>>
              /\ i' = 0
              /\ pc' = "pca_copy"
              /\ UNCHANGED <<ret_pca, log>>
    /\ UNCHANGED <<x, pca>>
    /\ PcaFrame

\* the row built by one pass of `for i in 0..n_samples`: `for j in 0..2`
CopiedRow(m, row) == [j \in 1..N_COMPONENTS |-> Get(m, row, j - 1)]

\* variant: the success value also carries the fitted basis
PcaOk_WithBasis(projected) ==
    [tag |-> "Ok", projected_data |-> projected, basis |-> pca.projection]

\* the value perform_pca returns on success
PcaOk(projected) == [tag |-> "Ok", projected_data |-> projected]

\* one pass of the outer copy loop, or Ok(projected_data) after the last one
PcaCopy ==
    /\ pc = "pca_copy"
    /\ IF i < x.nrows
       THEN IF \A j \in 0..(N_COMPONENTS - 1) : InShape(result, i, j)
            THEN /\ projected_data' =
                        Append(projected_data, CopiedRow(result, i))
                 /\ lib' = lib \o [j \in 1..N_COMPONENTS |->
                              [fn |-> "get", nrows |-> i, ncols |-> j - 1]]
                 /\ i' = i + 1
                 /\ UNCHANGED <<pc, ret_pca, log>>
            ELSE /\ pc' = "panic"
                 /\ UNCHANGED <<projected_data, lib, i, ret_pca, log>>
       ELSE /\ ret_pca' = PcaOk(projected_data)
            /\ log' = PcaLog(ret_pca')
            /\ pc' = "pca_returned"
            /\ UNCHANGED <<projected_data, lib, i>>
    /\ UNCHANGED <<x, pca, result>>
    /\ PcaFrame

PerformPca ==
    \/ PcaCheckEmpty
    \/ PcaCheckRows
    \/ PcaConvert
    \/ PcaFit
    \/ PcaTransform
    \/ PcaCopy

\* -------------------------------------------- perform_pca called directly
FeatureValues == {0, 1}

Rows == UNION { [1..n -> FeatureValues] : n \in 0..MaxCols }
Matrices == UNION { [1..n -> Rows] : n \in 0..MaxRows }

InitPca ==
    /\ pc = "pca_entry"
    /\ data \in Matrices
    /\ header_len = 0
    /\ records = <<>>
    /\ targets = <<>>
    /\ x = None
    /\ pca = None
    /\ result = None
    /\ projected_data = <<>>
    /\ i = 0
    /\ ret_read = None
    /\ ret_pca = None
    /\ ret_plot = None
    /\ ret_main = None
    /\ canvas = NoCanvas
    /\ console = <<>>
    /\ lib = <<>>
    /\ log = <<"perform_pca">>

NextPca == PerformPca

SpecPca == InitPca /\ [][NextPca]_vars

\* --------------------------------------------------------------- read_csv
\* field texts a record may hold, and what str::parse::<f64> makes of each
Tokens == {"1.0", "2", "x"}

Parses(s) == s \in {"1.0", "2"}

ParseF64(s) == IF s = "1.0" THEN 1 ELSE 2

\* the records a reader may yield: every arity up to MaxFields
Records == UNION { [1..n -> Tokens] : n \in 0..MaxFields }

ReadFrame == UNCHANGED <<x, pca, result, projected_data, ret_pca, ret_plot,
                         ret_main, canvas, console, lib>>

ReadLog(r) == Append(log, "read_csv:" \o r.tag)

\* ReaderBuilder::new().has_headers(true).from_path(file_path)?
\* The header record (absent in an empty file) fixes the field count.
ReadOpen ==
    /\ pc = "read_open"
    /\ \E found \in BOOLEAN, h \in 0..MaxFields :
         IF ~found
         THEN /\ ret_read' = Err("No such file or directory")
              /\ log' = ReadLog(ret_read')
              /\ pc' = "read_returned"
              /\ UNCHANGED <<header_len, data, targets>>
         ELSE /\ header_len' = h
              /\ data' = <<>>
              /\ targets' = <<>>
              /\ pc' = "read_loop"
              /\ UNCHANGED <<ret_read, log>>
    /\ UNCHANGED <<records, i>>
    /\ ReadFrame

\* record.iter().take(record.len() - 1).map(|s| s.parse().unwrap())
FeatureFields(record) == SubSeq(record, 1, Len(record) - 1)

ParsedRow(record) ==
    [f \in 1..(Len(record) - 1) |-> ParseF64(record[f])]

\* record[record.len() - 1].parse().unwrap()
ParsedTarget(record) == ParseF64(record[Len(record)])

\* variant: a field that does not parse is replaced by a default
Unwraps_Lenient(record) == Len(record) >= 1

\* both unwraps succeed; `record.len() - 1` underflows on a record of no field
Unwraps(record) ==
    /\ Len(record) >= 1
    /\ \A f \in 1..Len(record) : Parses(record[f])

\* one pass of `for result in rdr.records()`: a record of another length than
\* the first is an error of the reader (the reader is not flexible)
ReadRecord ==
    /\ pc = "read_loop"
    /\ header_len > 0
    /\ Len(records) < MaxRecords
    /\ \E record \in Records :
         /\ records' = Append(records, record)
         /\ IF Len(record) # header_len
            THEN /\ ret_read' = Err("UnequalLengths")
                 /\ log' = ReadLog(ret_read')
                 /\ pc' = "read_returned"
                 /\ UNCHANGED <<data, targets>>
            ELSE IF ~Unwraps(record)
            THEN /\ pc' = "panic"
                 /\ UNCHANGED <<data, targets, ret_read, log>>
            ELSE /\ data' = Append(data, ParsedRow(record))
                 /\ targets' = Append(targets, ParsedTarget(record))
                 /\ UNCHANGED <<pc, ret_read, log>>
    /\ UNCHANGED <<header_len, i>>
    /\ ReadFrame

\* end of file: Ok((data, targets))
ReadDone ==
    /\ pc = "read_loop"
    /\ ret_read' = [tag |-> "Ok", data |-> data, targets |-> targets]
    /\ log' = ReadLog(ret_read')
    /\ pc' = "read_returned"
    /\ UNCHANGED <<header_len, records, data, targets, i>>
    /\ ReadFrame

ReadCsv ==
    \/ ReadOpen
    \/ ReadRecord
    \/ ReadDone

\* ------------------------------------------------------- plot_pca_results
PlotFrame == UNCHANGED <<header_len, records, data, targets, x, pca, result,
                         projected_data, ret_read, ret_pca, ret_main,
                         console, lib>>

PlotLog(r) == Append(log, "plot_pca_results:" \o r.tag)

PlotFail(m) ==
    /\ ret_plot' = Err(m)
    /\ log' = PlotLog(ret_plot')
    /\ pc' = "plot_returned"

\* BitMapBackend::new(..).into_drawing_area(); root.fill(&WHITE)?
PlotCanvas ==
    /\ pc = "plot_canvas"
    /\ \E ok \in BOOLEAN :
         IF ok
         THEN /\ canvas' = [canvas EXCEPT !.stage = "filled"]
              /\ pc' = "plot_chart"
              /\ UNCHANGED <<ret_plot, log>>
         ELSE /\ canvas' = [canvas EXCEPT !.stage = "created"]
              /\ PlotFail("fill")
    /\ UNCHANGED i
    /\ PlotFrame

\* the folds of lines 64-67; 1.0 is Len(points) units of 1/n_samples
Column(points, c) == { points[p][c + 1] : p \in 1..Len(points) }

AxisRange(points, c) ==
    <<SetMin(Column(points, c)) - Len(points),
      SetMax(Column(points, c)) + Len(points)>>

\* plot bounds, ChartBuilder..build_cartesian_2d(..)?, configure_mesh().draw()?
PlotChart ==
    /\ pc = "plot_chart"
    /\ IF \E p \in 1..Len(projected_data) : Len(projected_data[p]) < 2
       THEN /\ pc' = "panic"
            /\ UNCHANGED <<canvas, i, ret_plot, log>>
       ELSE \E ok \in BOOLEAN :
              IF ok
              THEN /\ canvas' = [canvas EXCEPT
                                   !.stage = "charted",
                                   !.x_range = AxisRange(projected_data, 0),
                                   !.y_range = AxisRange(projected_data, 1)]
                   /\ i' = 0
                   /\ pc' = "plot_points"
                   /\ UNCHANGED <<ret_plot, log>>
              ELSE /\ PlotFail("chart")
                   /\ UNCHANGED <<canvas, i>>
    /\ PlotFrame

\* variant: every positive label is red
Color_Positive(target) == IF target > 0 THEN "RED" ELSE "BLUE"

\* if targets[i] == 1.0 { RED } else { BLUE }
Color(target) == IF target = 1 THEN "RED" ELSE "BLUE"

Circle(point, target) ==
    [at |-> <<point[1], point[2]>>, size |-> 5, color |-> Color(target)]

\* one pass of `for (i, point) in projected_data.iter().enumerate()`, or Ok(())
PlotPoint ==
    /\ pc = "plot_points"
    /\ IF i < Len(projected_data)
       THEN IF i >= Len(targets)
            THEN /\ pc' = "panic"
                 /\ UNCHANGED <<canvas, i, ret_plot, log>>
            ELSE \E ok \in BOOLEAN :
                   IF ok
                   THEN /\ canvas' = [canvas EXCEPT !.circles =
                               Append(@, Circle(projected_data[i + 1],
                                                targets[i + 1]))]
                        /\ i' = i + 1
                        /\ UNCHANGED <<pc, ret_plot, log>>
                   ELSE /\ PlotFail("draw_series")
                        /\ UNCHANGED <<canvas, i>>
       ELSE /\ ret_plot' = [tag |-> "Ok"]
            /\ log' = PlotLog(ret_plot')
            /\ pc' = "plot_returned"
            /\ UNCHANGED <<canvas, i>>
    /\ PlotFrame

PlotPcaResults ==
    \/ PlotCanvas
    \/ PlotChart
    \/ PlotPoint

\* ------------------------------------------------------------------- main
MainFrame == UNCHANGED <<header_len, records, data, targets, x, pca, result,
                         projected_data, i, ret_read, ret_pca, ret_plot,
                         canvas, lib>>

\* `?` in main: the stage's error becomes main's result
MainFail(r) ==
    /\ ret_main' = r
    /\ log' = Append(log, "main:Err")
    /\ pc' = "exit"
    /\ UNCHANGED console

\* let (data, targets) = read_csv(file_path)
MainCallRead ==
    /\ pc = "main"
    /\ log' = Append(log, "read_csv")
    /\ pc' = "read_open"
    /\ UNCHANGED <<ret_main, console>>
    /\ MainFrame

\* ...?; let projected_data = perform_pca(&data)
MainCallPca ==
    /\ pc = "read_returned"
    /\ IF IsErr(ret_read)
       THEN MainFail(ret_read)
       ELSE /\ log' = Append(log, "perform_pca")
            /\ pc' = "pca_entry"
            /\ UNCHANGED <<ret_main, console>>
    /\ MainFrame

\* variant: the error of perform_pca is not propagated
MainCallPlot_Unchecked ==
    /\ pc = "pca_returned"
    /\ log' = Append(log, "plot_pca_results")
    /\ pc' = "plot_canvas"
    /\ UNCHANGED <<ret_main, console>>
    /\ UNCHANGED <<header_len, records, data, targets, x, pca, result,
                   projected_data, i, ret_read, ret_pca, ret_plot,
                   canvas, lib>>

\* ...?; plot_pca_results(&projected_data, &targets)
MainCallPlot ==
    /\ pc = "pca_returned"
    /\ IF IsErr(ret_pca)
       THEN MainFail(ret_pca)
       ELSE /\ log' = Append(log, "plot_pca_results")
            /\ pc' = "plot_canvas"
            /\ UNCHANGED <<ret_main, console>>
    /\ MainFrame

Completed == "PCA completed successfully. Results saved to pca_results.png"

\* ...?; println!(..); Ok(())
MainFinish ==
    /\ pc = "plot_returned"
    /\ IF IsErr(ret_plot)
       THEN MainFail(ret_plot)
       ELSE /\ console' = Append(console, Completed)
            /\ ret_main' = [tag |-> "Ok"]
            /\ log' = Append(log, "main:Ok")
            /\ pc' = "exit"
    /\ MainFrame

Main ==
    \/ MainCallRead
    \/ MainCallPca
    \/ MainCallPlot
    \/ MainFinish

Init ==
    /\ pc = "main"
    /\ header_len = 0
    /\ records = <<>>
    /\ data = <<>>
    /\ targets = <<>>
    /\ x = None
    /\ pca = None
    /\ result = None
    /\ projected_data = <<>>
    /\ i = 0
    /\ ret_read = None
    /\ ret_pca = None
    /\ ret_plot = None
    /\ ret_main = None
    /\ canvas = NoCanvas
    /\ console = <<>>
    /\ lib = <<>>
    /\ log = <<>>

Next ==
    \/ Main
    \/ ReadCsv
    \/ PerformPca
    \/ PlotPcaResults

Spec == Init /\ [][Next]_vars

\* ================================================================ claims
Called(name) == \E k \in 1..Len(lib) : lib[k].fn = name

Logged(e) == \E k \in 1..Len(log) : log[k] = e

Rectangular(rows) ==
    Len(rows) > 0 /\ \A r \in 1..Len(rows) : Len(rows[r]) = Len(rows[1])

Ragged(rows) ==
    \E r, q \in 1..Len(rows) : Len(rows[r]) # Len(rows[q])

\* C1: a matrix of zero rows makes perform_pca return the error "No data
\* provided" straight from its entry: the matrix is not converted, PCA::fit
\* and transform are not called, and no projected matrix is returned.
C1_EmptyRejected ==
    Len(data) = 0 =>
        /\ pc \in {"pca_entry", "pca_returned"}
        /\ lib = <<>>
        /\ x = None /\ pca = None /\ result = None
        /\ projected_data = <<>>
        /\ pc = "pca_returned" =>
              IsErr(ret_pca) /\ ret_pca.msg = "No data provided"

C1_Witness == Len(data) = 0 /\ pc = "pca_returned" /\ IsErr(ret_pca)

\* C2: a non-empty matrix with a row whose length differs from the first
\* row's makes perform_pca return an error without any library call (no
\* conversion, no PCA::fit), wherever the odd row stands.
C2_RaggedRejected ==
    Ragged(data) =>
        /\ pc \in {"pca_entry", "pca_rows", "pca_returned"}
        /\ lib = <<>>
        /\ pc = "pca_returned" =>
              /\ IsErr(ret_pca)
              /\ ret_pca.msg = "Inconsistent number of features in data"

\* the odd row is the last of three
C2_Witness ==
    /\ pc = "pca_returned"
    /\ IsErr(ret_pca)
    /\ Len(data) = 3
    /\ Len(data[2]) = Len(data[1])
    /\ Len(data[3]) # Len(data[1])

\* C3: a rectangular matrix of fewer than two features (k = 2 is outside
\* [1, n_features]) is refused by perform_pca's own validation: PCA::fit is
\* never called on it.
C3_NarrowNeverFitted ==
    (Rectangular(data) /\ Len(data[1]) < N_COMPONENTS) => ~Called("PCA::fit")

\* C4: a matrix of a single row is refused before any computation: PCA::fit
\* is never called with fewer than two samples.
C4_SingleSampleNeverFitted ==
    \A k \in 1..Len(lib) : lib[k].fn = "PCA::fit" => lib[k].nrows >= 2

\* entry c of the projection of row r of `rows`, from the rows themselves:
\* sum over the features f of (n * rows[r][f] - column sum f) * basis[f][c]
RowProjection(rows, r, basis, c) ==
    LET n == Len(rows)
        colsum(f) == SumTo([q \in 0..(n - 1) |-> rows[q + 1][f]], n)
    IN  SumTo([f \in 0..(Len(rows[r]) - 1) |->
                  (n * rows[r][f + 1] - colsum(f + 1)) * Get(basis, f, c - 1)],
              Len(rows[r]))

PcaRunning ==
    pc \in {"pca_entry", "pca_rows", "pca_convert", "pca_fit",
            "pca_transform", "pca_copy"}

PcaKeeps ==
    PcaRunning =>
        /\ data' = data
        /\ targets' = targets
        /\ records' = records
        /\ ret_read' = ret_read
        /\ console' = console
        /\ canvas' = canvas

\* C7: no step of perform_pca, on a path to Ok or to an error, changes its
\* argument, the caller's other data, the console or the image.
C7_Pure == [][PcaKeeps]_vars

\* a call that ran to its end on two samples
C7_Witness ==
    /\ pc = "pca_returned"
    /\ IsOk(ret_pca)
    /\ Len(data) = 2
    /\ console = <<>>

\* a record the loader must reject
Malformed(record) ==
    \/ Len(record) = 0
    \/ Len(record) # header_len
    \/ \E f \in 1..Len(record) : ~Parses(record[f])

C9_OnePointPerSample ==
    /\ Len(canvas.circles) <= Len(projected_data)
    /\ \A k \in 1..Len(canvas.circles) :
          /\ canvas.circles[k].at =
                <<projected_data[k][1], projected_data[k][2]>>
          /\ canvas.circles[k].color \in {"RED", "BLUE"}
          /\ canvas.circles[k].color = "RED" <=> targets[k] = 1
    /\ IsOk(ret_plot) => Len(canvas.circles) = Len(projected_data)
    /\ Logged("plot_pca_results") =>
          /\ Len(targets) = Len(projected_data)
          /\ pc # "panic"

\* a finished picture with a red point and a point of label 2
C9_Witness ==
    /\ IsOk(ret_plot)
    /\ \E k \in 1..Len(targets) :
          targets[k] = 1 /\ canvas.circles[k].color = "RED"
    /\ \E k \in 1..Len(targets) :
          targets[k] = 2 /\ canvas.circles[k].color = "BLUE"

IsPrefix(s, t) == Len(s) <= Len(t) /\ s = SubSeq(t, 1, Len(s))

\* the four ways a run of main can go
Runs ==
    { <<"read_csv", "read_csv:Err", "main:Err">>,
      <<"read_csv", "read_csv:Ok", "perform_pca", "perform_pca:Err",
        "main:Err">>,
      <<"read_csv", "read_csv:Ok", "perform_pca", "perform_pca:Ok",
        "plot_pca_results", "plot_pca_results:Err", "main:Err">>,
      <<"read_csv", "read_csv:Ok", "perform_pca", "perform_pca:Ok",
        "plot_pca_results", "plot_pca_results:Ok", "main:Ok">> }

\* C10: the stages run in the order read_csv, perform_pca, plot_pca_results,
\* each after the previous one returned Ok; after an error no later stage
\* runs and main returns that error; the message is printed only after three
\* Ok, and the image is untouched unless reading and PCA both returned Ok.
C10_ErrorsPropagate ==
    /\ \E run \in Runs : IsPrefix(log, run)
    /\ Logged("main:Err") =>
          /\ IsErr(ret_main)
          /\ ret_main = (IF IsErr(ret_read) THEN ret_read
                         ELSE IF IsErr(ret_pca) THEN ret_pca ELSE ret_plot)
    /\ console # <<>> =>
          /\ console = <<Completed>>
          /\ IsOk(ret_read) /\ IsOk(ret_pca) /\ IsOk(ret_plot)
    /\ canvas # NoCanvas => IsOk(ret_read) /\ IsOk(ret_pca)

\* main returned the error of perform_pca
C10_Witness ==
    /\ pc = "exit"
    /\ IsErr(ret_pca)
    /\ ret_main = ret_pca
    /\ canvas = NoCanvas
====
